---- MODULE Spec2Model ----
(***************************************************************************)
(* The claim-verification pipeline of fakenews.py: a LangGraph state graph *)
(* of five nodes (plan_claims, extract_next_claim, verify_claim,           *)
(* compute_score, final_explanation) over one state dict, with two         *)
(* conditional self-loop edges.  The generation service (model.invoke)     *)
(* and the search service (search_tool.run) are external: every call may   *)
(* raise or return any text.                                               *)
(*                                                                         *)
(* Texts are sequences of tokens; floats with two decimals are integers    *)
(* counting hundredths; the state dict is a function from the keys that    *)
(* are present to their values.  The graph runtime's own superstep limit   *)
(* is not part of this source file and is not modelled.                    *)
(***************************************************************************)
EXTENDS Integers, Sequences, FiniteSets, TLC

VARIABLES pc, state, err, lastCall

vars == <<pc, state, err, lastCall>>

----------------------------------------------------------------------------
(* Bounds of the model *)

\* longest plan the sampled generation service returns
MaxPlan == 2

\* longest claim_results sequence given to the aggregation functions directly
MaxResults == 5

\* longest text given to extract_json directly, in tokens
MaxText == 5

\* largest number of results whose counts are given to the scoring
\* arithmetic directly
MaxTotal == 4002

----------------------------------------------------------------------------
(* JSON values, as json.loads produces them *)

JStr(x) == [t |-> "str", s |-> x, l |-> <<>>]
JList(q) == [t |-> "list", s |-> "", l |-> q]
JTrue == [t |-> "true", s |-> "", l |-> <<>>]
JFalse == [t |-> "false", s |-> "", l |-> <<>>]
JNull == [t |-> "null", s |-> "", l |-> <<>>]
\* a nested object, as the sequence of its members <<[key, val], ...>>
JObj(members) == [t |-> "obj", s |-> "", l |-> members]

\* Python truthiness of a value (bool(v))
Truthy(v) ==
    CASE v.t = "true" -> TRUE
      [] v.t = "false" -> FALSE
      [] v.t = "null" -> FALSE
      [] v.t = "str" -> v.s # ""
      [] v.t = "list" -> v.l # <<>>
      [] v.t = "obj" -> v.l # <<>>

\* whether len(v) is defined; len(null), len(true) raise TypeError
HasLen(v) == v.t \in {"list", "obj"}

PyLen(v) ==
    IF v.t = "obj" THEN Cardinality({v.l[i].key : i \in 1..Len(v.l)}) ELSE Len(v.l)

\* str(v) as an f-string renders it
PyStr(v) ==
    CASE v.t = "str" -> v.s
      [] v.t = "true" -> "True"
      [] v.t = "false" -> "False"
      [] v.t = "null" -> "None"
      [] v.t = "list" -> "[...]"
      [] v.t = "obj" -> "{...}"

\* dict.get(key, default)
Get(d, k, default) == IF k \in DOMAIN d THEN d[k] ELSE default

EmptyDict == [k \in {} |-> JNull]

\* the state after a node's update is merged into it
Merge(s, u) ==
    [k \in (DOMAIN s) \cup (DOMAIN u) |-> IF k \in DOMAIN u THEN u[k] ELSE s[k]]

----------------------------------------------------------------------------
(* Texts: sequences of tokens.  "{" and "}" are braces, "kv" is one        *)
(* "key": value member of an object, "k:" is a key whose value is the      *)
(* object that follows it, "x" is any other text.                          *)

Open == [sym |-> "{", key |-> "", val |-> JNull]
Close == [sym |-> "}", key |-> "", val |-> JNull]
Junk == [sym |-> "x", key |-> "", val |-> JNull]
Member(k, v) == [sym |-> "kv", key |-> k, val |-> v]
KeyOf(k) == [sym |-> "k:", key |-> k, val |-> JNull]

Min(S) == CHOOSE x \in S : \A y \in S : x <= y
Max(S) == CHOOSE x \in S : \A y \in S : x >= y

RECURSIVE ParseMembers(_, _)
\* the JSON decoder reading the members of an object from position j of
\* toks up to the "}" that closes it: whether it succeeds, where that "}"
\* is, and the members read, in order
ParseMembers(toks, j) ==
    IF j > Len(toks) THEN [ok |-> FALSE, end |-> j, members |-> <<>>]
    ELSE IF toks[j].sym = "}" THEN [ok |-> TRUE, end |-> j, members |-> <<>>]
    ELSE IF toks[j].sym = "kv" THEN
        LET rest == ParseMembers(toks, j + 1)
        IN  [ok |-> rest.ok, end |-> rest.end,
             members |-> <<[key |-> toks[j].key, val |-> toks[j].val]>> \o rest.members]
    ELSE IF toks[j].sym = "k:" /\ j + 1 <= Len(toks) /\ toks[j + 1].sym = "{" THEN
        LET inner == ParseMembers(toks, j + 2)
            rest == ParseMembers(toks, inner.end + 1)
        IN  IF ~inner.ok THEN [ok |-> FALSE, end |-> j, members |-> <<>>]
            ELSE [ok |-> rest.ok, end |-> rest.end,
                  members |-> <<[key |-> toks[j].key, val |-> JObj(inner.members)]>>
                                  \o rest.members]
    ELSE [ok |-> FALSE, end |-> j, members |-> <<>>]

\* the dict of a sequence of members: a later duplicate key wins
DictOf(members) ==
    LET keys == {members[i].key : i \in 1..Len(members)}
        lastOf(k) == Max({i \in 1..Len(members) : members[i].key = k})
    IN  [k \in keys |-> members[lastOf(k)].val]

\* json.loads of a text that starts with "{" and ends with "}": the object
\* must close at the last token, anything after it is "Extra data"
json_loads(sub) ==
    LET r == ParseMembers(sub, 2)
    IN  IF r.ok /\ r.end = Len(sub)
        THEN [exc |-> "none", obj |-> DictOf(r.members)]
        ELSE [exc |-> "JSONDecodeError", obj |-> EmptyDict]

\* extract_json with a lazy pattern: the first "{" to the first "}" after it
extract_json_nongreedy(text) ==
    LET opens == {i \in 1..Len(text) : text[i].sym = "{"}
        first == Min(opens)
        closes == {j \in 1..Len(text) : j > first /\ text[j].sym = "}"}
    IN  IF opens = {} THEN [exc |-> "ValueError", obj |-> EmptyDict]
        ELSE IF closes = {} THEN [exc |-> "ValueError", obj |-> EmptyDict]
        ELSE json_loads(SubSeq(text, first, Min(closes)))

\* re.search(r"\{.*\}", text, re.S): first "{" to the last "}" after it
extract_json(text) ==
    LET opens == {i \in 1..Len(text) : text[i].sym = "{"}
        first == Min(opens)
        closes == {j \in 1..Len(text) : j > first /\ text[j].sym = "}"}
    IN  IF opens = {} THEN [exc |-> "ValueError", obj |-> EmptyDict]
        ELSE IF closes = {} THEN [exc |-> "ValueError", obj |-> EmptyDict]
        ELSE json_loads(SubSeq(text, first, Max(closes)))

----------------------------------------------------------------------------
(* The external services: what one call may answer *)

Obj(members) == <<Open>> \o members \o <<Close>>

TopicList(n) == [i \in 1..n |-> JStr("topic")]

ClaimTexts == {"claim one", "claim two"}

VerdictTexts == {"legit", "not legit", "maybe"}

\* answers shaped as the planner's prompt asks, and a plan that is no list
PlanAnswers ==
    {Obj(<<Member("plan", JList(TopicList(n)))>>) : n \in 0..MaxPlan}
        \cup {Obj(<<Member("plan", JNull)>>)}

\* answers shaped as the extractor's prompt asks
ExtractAnswers ==
    {Obj(<<Member("claim", JStr(c))>>) : c \in ClaimTexts}
        \cup {Obj(<<Member("done", JTrue)>>),
              <<Junk>> \o Obj(<<Member("done", JFalse), Member("claim", JStr("claim one"))>>)}

\* answers shaped as the verifier's prompt asks
VerdictAnswers ==
    {Obj(<<Member("verdict", JStr(v)), Member("explanation", JStr("because"))>>) :
        v \in VerdictTexts}
        \cup {Obj(<<Member("verdict", JStr("legit"))>>)}

\* answers no prompt asks for: no object, a malformed object, two objects,
\* an empty object
OtherAnswers ==
    {<<Junk>>,
     <<Open, Junk, Close>>,
     Obj(<<Member("done", JTrue)>>) \o <<Junk>> \o Obj(<<Member("claim", JStr("claim one"))>>),
     <<Close, Open>>,
     Obj(<<>>)}

GenTexts == PlanAnswers \cup ExtractAnswers \cup VerdictAnswers \cup OtherAnswers

NoCall == [called |-> FALSE, raises |-> FALSE, content |-> <<>>]

\* model.invoke(...): raises, or returns a response with some content
GenOutcomes ==
    {[called |-> TRUE, raises |-> TRUE, content |-> <<>>]}
        \cup {[called |-> TRUE, raises |-> FALSE, content |-> t] : t \in GenTexts}

\* search_tool.run(claim): raises, or returns evidence text (possibly empty)
SearchOutcomes ==
    {[called |-> TRUE, raises |-> TRUE, content |-> <<>>],
     [called |-> TRUE, raises |-> FALSE, content |-> <<>>],
     [called |-> TRUE, raises |-> FALSE, content |-> <<Junk>>]}

Articles == {"header\nbody"}

----------------------------------------------------------------------------
(* The nodes.  Each returns the exception it raises ("none" when it        *)
(* returns) and the partial state it returns.                              *)

Returns(u) == [exc |-> "none", update |-> u]
Raises(e) == [exc |-> e, update |-> EmptyDict]

\* the try/except shared by the three nodes: the call and the parse are
\* inside the try, so either failing takes the except branch
Failed(g) == g.raises \/ extract_json(g.content).exc # "none"

\* plan_claims with only the call inside the try: a parse failure escapes
plan_claims_unguarded(s, g) ==
    LET plan == IF g.raises THEN JList(<<>>)
                ELSE Get(extract_json(g.content).obj, "plan", JList(<<>>))
    IN  IF ~g.raises /\ extract_json(g.content).exc # "none"
        THEN Raises(extract_json(g.content).exc)
        ELSE Returns([plan |-> plan,
                      claims |-> <<>>,
                      current_index |-> 0,
                      claim_results |-> <<>>,
                      legitimacy_percentage |-> 0])

plan_claims(s, g) ==
    LET plan == IF Failed(g) THEN JList(<<>>)
                ELSE Get(extract_json(g.content).obj, "plan", JList(<<>>))
    IN  Returns([plan |-> plan,
                 claims |-> <<>>,
                 current_index |-> 0,
                 claim_results |-> <<>>,
                 legitimacy_percentage |-> 0])

extract_next_claim(s, g) ==
    LET extracted == s["claims"]
        parsed == IF Failed(g) THEN [done |-> JTrue] ELSE extract_json(g.content).obj
    IN  IF Truthy(Get(parsed, "done", JNull)) THEN Returns(EmptyDict)
        ELSE IF "claim" \notin DOMAIN parsed THEN Raises("KeyError")
        ELSE Returns([claims |-> Append(extracted, parsed["claim"])])

should_extract_more(s) ==
    IF ~HasLen(s["plan"]) THEN [exc |-> "TypeError", next |-> "raised"]
    ELSE IF Len(s["claims"]) < PyLen(s["plan"])
         THEN [exc |-> "none", next |-> "extract_next_claim"]
         ELSE [exc |-> "none", next |-> "verify_claim"]

FallbackExplanation == JStr("Verification failed.")

\* CurrentClaim reading the first claim whatever the cursor
CurrentClaim_first(s) == s["claims"][1]

\* state["claims"][idx]
CurrentClaim(s) == s["claims"][s["current_index"] + 1]

\* VerifyUpdate replacing claim_results by the new result alone
VerifyUpdate_overwrite(s, claim, verdict, explanation) ==
    [claim_results |->
         <<[claim |-> claim, verdict |-> verdict, explanation |-> explanation]>>,
     current_index |-> s["current_index"] + 1]

\* the dict verify_claim returns
VerifyUpdate(s, claim, verdict, explanation) ==
    [claim_results |->
         Append(s["claim_results"],
                [claim |-> claim, verdict |-> verdict, explanation |-> explanation]),
     current_index |-> s["current_index"] + 1]

verify_claim(s, sr, g) ==
    LET idx == s["current_index"]
        verdict == IF Failed(g) THEN JStr("not legit")
                   ELSE Get(extract_json(g.content).obj, "verdict", JStr("not legit"))
        explanation == IF Failed(g) THEN FallbackExplanation
                       ELSE Get(extract_json(g.content).obj, "explanation", JStr(""))
    IN  IF idx + 1 > Len(s["claims"]) THEN Raises("IndexError")
        ELSE IF sr.raises THEN Raises("SearchError")
        ELSE Returns(VerifyUpdate(s, CurrentClaim(s), verdict, explanation))

\* should_continue_verification mapped past compute_score
should_continue_verification_skip(s) ==
    IF s["current_index"] < Len(s["claims"]) THEN "verify_claim" ELSE "final_explanation"

\* should_continue_verification comparing with <=
should_continue_verification_inclusive(s) ==
    IF s["current_index"] <= Len(s["claims"]) THEN "verify_claim" ELSE "compute_score"

should_continue_verification(s) ==
    IF s["current_index"] < Len(s["claims"]) THEN "verify_claim" ELSE "compute_score"

----------------------------------------------------------------------------
(* Aggregation and report *)

\* policy threshold of compute_score, in percent
Threshold == 60

RECURSIVE legit_count(_)
\* sum(1 for r in results if r["verdict"] == "legit")
legit_count(results) ==
    IF results = <<>> THEN 0
    ELSE (IF Head(results).verdict = JStr("legit") THEN 1 ELSE 0)
             + legit_count(Tail(results))

\* round(num / den * 100, 2), in hundredths; a tie goes to the even neighbour
Round2(num, den) ==
    LET q == (10000 * num) \div den
        r == (10000 * num) % den
    IN  IF 2 * r < den THEN q
        ELSE IF 2 * r > den THEN q + 1
        ELSE IF q % 2 = 0 THEN q ELSE q + 1

\* the values round(percentage, 2) can take: when num / den * 100 lies
\* exactly between two hundredths, the float product lies a rounding error
\* to either side of it (23 of 160 gives 14.37, not 14.38), so either
\* neighbour is possible
Round2Set(num, den) ==
    LET q == (10000 * num) \div den
        r == (10000 * num) % den
    IN  IF 2 * r = den THEN {q, q + 1} ELSE {Round2(num, den)}

\* AtLeastThreshold with a strict comparison
AtLeastThreshold_strict(legit, total) == 100 * legit > Threshold * total

\* percentage >= 60 for percentage = (legit / total) * 100.  The float
\* quotient of a ratio equal to 3/5 is the double nearest 0.6, whose product
\* with 100 is exactly 60.0, so the comparison agrees with exact arithmetic.
AtLeastThreshold(legit, total) == 100 * legit >= Threshold * total

\* what compute_score returns for a non-empty list with `legit` legit
\* verdicts among `total`, pct being the rounded percentage
Score(legit, total, pct) ==
    LET verdict == IF AtLeastThreshold(legit, total) THEN "Verified" ELSE "Unverified"
    IN  [legitimacy_percentage |-> pct, final_verdict |-> verdict, D |-> verdict]

\* the rounded percentages compute_score can store for state s
RoundedPercentages(s) ==
    IF s["claim_results"] = <<>> THEN {0}
    ELSE Round2Set(legit_count(s["claim_results"]), Len(s["claim_results"]))

compute_score(s, pct) ==
    LET results == s["claim_results"]
    IN  IF results = <<>>
        THEN Returns([legitimacy_percentage |-> 0, final_verdict |-> "Fake", D |-> "Fake"])
        ELSE Returns(Score(legit_count(results), Len(results), pct))

\* one formatted entry, as the pieces of its f-string; the cross and the
\* check mark are written [x] and [v]
FormatBlock(r) ==
    IF r.verdict = JStr("not legit")
    THEN <<"[x] Claim: ", PyStr(r.claim), "\nWhy it is not legit:\n",
           PyStr(r.explanation), "\n">>
    ELSE <<"[v] Claim: ", PyStr(r.claim), "\nWhy it is legit:\n",
           PyStr(r.explanation), "\n">>

RECURSIVE Formatted_reversed(_)
\* Formatted inserting each entry at the front
Formatted_reversed(results) ==
    IF results = <<>> THEN <<>>
    ELSE Formatted_reversed(Tail(results)) \o <<FormatBlock(Head(results))>>

RECURSIVE Formatted(_)
\* the list `formatted` after the loop over claim_results
Formatted(results) ==
    IF results = <<>> THEN <<>>
    ELSE <<FormatBlock(Head(results))>> \o Formatted(Tail(results))

RECURSIVE Join(_)
\* "\n".join(blocks), as a sequence of pieces
Join(blocks) ==
    IF blocks = <<>> THEN <<>>
    ELSE IF Len(blocks) = 1 THEN Head(blocks)
    ELSE Head(blocks) \o <<"\n">> \o Join(Tail(blocks))

final_explanation(s) ==
    Returns([final_explanation |-> Join(Formatted(s["claim_results"]))])

\* the JSON body predict() answers with
Response(s) ==
    [label |-> IF "D" \in DOMAIN s THEN s["D"] ELSE "",
     percentage |-> IF "legitimacy_percentage" \in DOMAIN s
                    THEN s["legitimacy_percentage"] ELSE 0,
     explanation |-> IF "final_explanation" \in DOMAIN s
                     THEN s["final_explanation"] ELSE <<>>]

----------------------------------------------------------------------------
(* The graph: graph_app.invoke({"A": content}) *)

Nodes == {"plan_claims", "extract_next_claim", "verify_claim",
          "compute_score", "final_explanation"}

Init ==
    /\ pc = "plan_claims"
    /\ state \in {[A |-> a] : a \in Articles}
    /\ err = "none"
    /\ lastCall = [node |-> "none", search |-> NoCall, gen |-> NoCall]

\* a node or its router raised: the exception leaves invoke() and predict()
Abort(e, node, sr, g) ==
    /\ pc' = "raised"
    /\ err' = e
    /\ state' = state
    /\ lastCall' = [node |-> node, search |-> sr, gen |-> g]

\* a node returned: its update is merged and the edge is followed
Advance(update, next, node, sr, g) ==
    /\ state' = Merge(state, update)
    /\ pc' = next
    /\ err' = "none"
    /\ lastCall' = [node |-> node, search |-> sr, gen |-> g]

NodePlanClaims ==
    /\ pc = "plan_claims"
    /\ \E g \in GenOutcomes :
          LET out == plan_claims(state, g)
          IN  IF out.exc # "none"
              THEN Abort(out.exc, "plan_claims", NoCall, g)
              ELSE Advance(out.update, "extract_next_claim", "plan_claims", NoCall, g)

NodeExtractNextClaim ==
    /\ pc = "extract_next_claim"
    /\ \E g \in GenOutcomes :
          LET out == extract_next_claim(state, g)
              route == should_extract_more(Merge(state, out.update))
          IN  IF out.exc # "none"
              THEN Abort(out.exc, "extract_next_claim", NoCall, g)
              ELSE IF route.exc # "none"
              THEN Abort(route.exc, "extract_next_claim", NoCall, g)
              ELSE Advance(out.update, route.next, "extract_next_claim", NoCall, g)

NodeVerifyClaim ==
    /\ pc = "verify_claim"
    /\ \E sr \in SearchOutcomes, g \in GenOutcomes :
          LET out == verify_claim(state, sr, g)
          IN  CASE out.exc = "IndexError" ->
                      Abort(out.exc, "verify_claim", NoCall, NoCall)
                [] out.exc = "SearchError" ->
                      Abort(out.exc, "verify_claim", sr, NoCall)
                [] OTHER ->
                      Advance(out.update,
                              should_continue_verification(Merge(state, out.update)),
                              "verify_claim", sr, g)

NodeComputeScore ==
    /\ pc = "compute_score"
    /\ \E pct \in RoundedPercentages(state) :
          Advance(compute_score(state, pct).update, "final_explanation",
                  "compute_score", NoCall, NoCall)

NodeFinalExplanation ==
    /\ pc = "final_explanation"
    /\ Advance(final_explanation(state).update, "END",
               "final_explanation", NoCall, NoCall)

Next ==
    \/ NodePlanClaims
    \/ NodeExtractNextClaim
    \/ NodeVerifyClaim
    \/ NodeComputeScore
    \/ NodeFinalExplanation

Spec == Init /\ [][Next]_vars

----------------------------------------------------------------------------
(* compute_score and final_explanation applied to every claim_results      *)
(* sequence up to MaxResults: the state is the one verification leaves,    *)
(* and the empty sequence is the input of compute_score's first branch.    *)

SampleResults ==
    {[claim |-> JStr("claim one"), verdict |-> JStr("legit"),
      explanation |-> JStr("because")],
     [claim |-> JStr("claim two"), verdict |-> JStr("not legit"),
      explanation |-> JStr("")],
     [claim |-> JStr("claim one"), verdict |-> JStr("not legit"),
      explanation |-> FallbackExplanation],
     [claim |-> JStr("claim two"), verdict |-> JStr("maybe"),
      explanation |-> JStr("because")]}

ResultSeqs == UNION {[1..n -> SampleResults] : n \in 0..MaxResults}

AggInit ==
    /\ pc = "compute_score"
    /\ err = "none"
    /\ lastCall = [node |-> "verify_claim", search |-> NoCall, gen |-> NoCall]
    /\ \E a \in Articles, rs \in ResultSeqs :
          state = [A |-> a,
                   plan |-> JList(TopicList(Len(rs))),
                   claims |-> [i \in 1..Len(rs) |-> rs[i].claim],
                   current_index |-> Len(rs),
                   claim_results |-> rs,
                   legitimacy_percentage |-> 0]

AggNext ==
    \/ NodeComputeScore
    \/ NodeFinalExplanation

AggSpec == AggInit /\ [][AggNext]_vars

----------------------------------------------------------------------------
(* extract_json applied to every text of up to MaxText tokens *)

ParserTokens ==
    {Open, Close, Junk, Member("a", JStr("1")), Member("a", JStr("2")), KeyOf("b")}

ParserTexts == UNION {[1..n -> ParserTokens] : n \in 0..MaxText}

ParserInit ==
    /\ pc = "extract_json"
    /\ err = "none"
    /\ lastCall = [node |-> "none", search |-> NoCall, gen |-> NoCall]
    /\ \E t \in ParserTexts : state = [text |-> t]

\* one call extract_json(text): it returns the parsed object or raises
CallExtractJson ==
    /\ pc = "extract_json"
    /\ LET r == extract_json(state["text"])
       IN  /\ pc' = IF r.exc = "none" THEN "returned" ELSE "raised"
           /\ err' = r.exc
           /\ state' = [text |-> state["text"], obj |-> r.obj]
    /\ UNCHANGED lastCall

ParserNext == CallExtractJson

ParserSpec == ParserInit /\ [][ParserNext]_vars

----------------------------------------------------------------------------
(* The scoring arithmetic of compute_score applied to the counts of long   *)
(* result lists: every total up to MaxTotal, with no legit verdict, only   *)
(* legit verdicts, and the legit counts next to 60 percent.                *)

ScoreCounts(total) ==
    {k \in {0, total, (3 * total) \div 5 - 1, (3 * total) \div 5, (3 * total) \div 5 + 1} :
        0 <= k /\ k <= total}

ScoreInit ==
    /\ pc = "compute_score"
    /\ err = "none"
    /\ lastCall = [node |-> "verify_claim", search |-> NoCall, gen |-> NoCall]
    /\ \E total \in 1..MaxTotal : \E legit \in ScoreCounts(total) :
          state = [legit_count |-> legit, total |-> total]

\* lines 159-167 of compute_score on len(results) = total and legit_count
ApplyScore ==
    /\ pc = "compute_score"
    /\ \E pct \in Round2Set(state["legit_count"], state["total"]) :
          state' = Merge(state, Score(state["legit_count"], state["total"], pct))
    /\ pc' = "final_explanation"
    /\ UNCHANGED <<err, lastCall>>

ScoreNext == ApplyScore

ScoreSpec == ScoreInit /\ [][ScoreNext]_vars

----------------------------------------------------------------------------
(* Properties *)

Has(k) == k \in DOMAIN state

\* the planner has run: the five keys it returns are in the state
Planned ==
    {"plan", "claims", "current_index", "claim_results", "legitimacy_percentage"}
        \subseteq DOMAIN state

\* C1: every run ends normally: wherever no node can run any more, the run
\* is at END (it went through compute_score and final_explanation), with
\* no exception having left the graph.
C1_RunEndsNormally ==
    (ENABLED Next) \/ (pc = "END" /\ err = "none" /\ Has("D") /\ Has("final_explanation"))

\* C2: when the search call raises, the generation call raises or the
\* generated text does not parse during a verification, the step completes
\* and the result it appends is the fallback for the claim it verified.
C2_FallbackOnAnyFailure ==
    (/\ lastCall.node = "verify_claim"
     /\ \/ lastCall.search.called /\ lastCall.search.raises
        \/ lastCall.gen.called /\ Failed(lastCall.gen))
    => /\ pc \in {"verify_claim", "compute_score"}
       /\ state["claim_results"][state["current_index"]] =
              [claim |-> state["claims"][state["current_index"]],
               verdict |-> JStr("not legit"),
               explanation |-> FallbackExplanation]

\* the extractor invocation recorded in lastCall ended with done
ExtractorEndedDone ==
    /\ lastCall.node = "extract_next_claim"
    /\ \/ Failed(lastCall.gen)
       \/ Truthy(Get(extract_json(lastCall.gen.content).obj, "done", JNull))

\* C3: once an extractor invocation ends with done, the extractor is not
\* invoked again.
C3_DoneEndsExtraction ==
    ExtractorEndedDone => pc # "extract_next_claim"

\* C4: with an empty plan neither the extractor nor the verifier is ever
\* invoked, and the run ends with Fake, 0.0 and the empty explanation.
C4_EmptyPlanSkipsLoops ==
    (Planned /\ state["plan"] = JList(<<>>))
    => /\ lastCall.node \notin {"extract_next_claim", "verify_claim"}
       /\ pc # "raised"
       /\ pc = "END" => Response(state) =
                           [label |-> "Fake", percentage |-> 0, explanation |-> <<>>]

\* C5: never more claims than planned topics, for every plan length
\* including 0.
C5_AtMostPlannedClaims ==
    (Planned /\ HasLen(state["plan"]))
    => Len(state["claims"]) <= PyLen(state["plan"])

\* C6: len(claim_results) = current_index and 0 <= current_index <=
\* len(claims) in every state from the planner on; a verifier iteration that
\* completes raises current_index by exactly 1, and no step lowers it.
C6_IndexInvariant ==
    /\ [](Planned =>
            /\ Len(state["claim_results"]) = state["current_index"]
            /\ 0 <= state["current_index"]
            /\ state["current_index"] <= Len(state["claims"]))
    /\ [][(Planned /\ Planned') =>
            /\ state["current_index"]' >= state["current_index"]
            /\ (pc = "verify_claim" /\ pc' # "raised")
                   => state["current_index"]' = state["current_index"] + 1
            /\ (pc # "verify_claim" \/ pc' = "raised")
                   => state["current_index"]' = state["current_index"]]_vars

\* two claims have been verified, one after the other
C6_Witness ==
    /\ lastCall.node = "verify_claim"
    /\ pc = "compute_score"
    /\ state["current_index"] = 2

\* the number of results whose verdict is legit
NumLegit(rs) == Cardinality({i \in 1..Len(rs) : rs[i].verdict = JStr("legit")})

\* C7: the aggregator gives 0.0 and Fake for no results; otherwise the
\* percentage 100 * legit / total (to the nearest hundredth) and Verified
\* exactly when 100 * legit / total >= 60, else Unverified; 3 of 5 is
\* Verified at 60.00, 1 of 2 is Unverified at 50.00, and no legit verdict
\* among some results is Unverified at 0.
C7_AggregatorFormula ==
    Has("D") =>
        LET rs == state["claim_results"]
            n == Len(rs)
            k == NumLegit(rs)
            pct == state["legitimacy_percentage"]
        IN  /\ state["final_verdict"] = state["D"]
            /\ n = 0 => (pct = 0 /\ state["D"] = "Fake")
            /\ n > 0 =>
                 /\ 2 * (pct * n - 10000 * k) <= n
                 /\ 2 * (10000 * k - pct * n) <= n
                 /\ state["D"] = (IF 100 * k >= 60 * n THEN "Verified" ELSE "Unverified")
            /\ (n = 5 /\ k = 3) => (pct = 6000 /\ state["D"] = "Verified")
            /\ (n = 2 /\ k = 1) => (pct = 5000 /\ state["D"] = "Unverified")
            /\ (n > 0 /\ k = 0) => (pct = 0 /\ state["D"] = "Unverified")

\* the aggregator has scored five results of which three are legit
C7_Witness ==
    /\ Has("D")
    /\ Len(state["claim_results"]) = 5
    /\ NumLegit(state["claim_results"]) = 3
    /\ state["D"] = "Verified"

\* pieces of one block, and of one block with the separator after it
BlockLen == 5
Stride == 6

\* C8: the explanation has one block per result, in the order of
\* claim_results: block i starts with a status header and carries the claim
\* text and the explanation of result i, with one newline between blocks;
\* no results give the empty string.
C8_ReportOrder ==
    Has("final_explanation") =>
        LET rs == state["claim_results"]
            n == Len(rs)
            e == state["final_explanation"]
        IN  /\ n = 0 => e = <<>>
            /\ n > 0 => Len(e) = n * BlockLen + (n - 1)
            /\ \A i \in 1..n :
                  /\ e[Stride * (i - 1) + 1] \in {"[x] Claim: ", "[v] Claim: "}
                  /\ e[Stride * (i - 1) + 2] = PyStr(rs[i].claim)
                  /\ e[Stride * (i - 1) + 4] = PyStr(rs[i].explanation)
                  /\ i < n => e[Stride * i] = "\n"

\* a report over three results whose first two differ in claim and explanation
C8_Witness ==
    /\ Has("final_explanation")
    /\ pc = "END"
    /\ Len(state["claim_results"]) = 3
    /\ state["claim_results"][1].claim # state["claim_results"][2].claim
    /\ state["claim_results"][1].explanation # state["claim_results"][2].explanation

\* C9: result i is the result of extracted claim i: verification follows
\* extraction order, repeating nothing, and once verification is over
\* every extracted claim has its result, so none was skipped.
C9_VerificationOrder ==
    Planned =>
        /\ Len(state["claim_results"]) <= Len(state["claims"])
        /\ \A i \in 1..Len(state["claim_results"]) :
              state["claim_results"][i].claim = state["claims"][i]
        /\ pc \in {"compute_score", "final_explanation", "END"}
               => Len(state["claim_results"]) = Len(state["claims"])

\* two different claims have been verified
C9_Witness ==
    /\ Planned
    /\ Len(state["claim_results"]) = 2
    /\ state["claims"][1] # state["claims"][2]

\* the planner's call failed, its answer did not parse, or the parsed
\* object has no plan field
PlannerFailed ==
    \/ Failed(lastCall.gen)
    \/ "plan" \notin DOMAIN extract_json(lastCall.gen.content).obj

\* C10: the planner never raises; after it, claims and claim_results are
\* empty, current_index and legitimacy_percentage are 0, and plan is the
\* empty list whenever the call, the parse or the plan field was missing.
C10_PlannerSwallowsFailures ==
    lastCall.node = "plan_claims" =>
        /\ pc = "extract_next_claim"
        /\ err = "none"
        /\ Planned
        /\ state["claims"] = <<>>
        /\ state["current_index"] = 0
        /\ state["claim_results"] = <<>>
        /\ state["legitimacy_percentage"] = 0
        /\ PlannerFailed => state["plan"] = JList(<<>>)

\* the planner got an answer holding a malformed object
C10_Witness ==
    /\ lastCall.node = "plan_claims"
    /\ ~lastCall.gen.raises
    /\ extract_json(lastCall.gen.content).exc = "JSONDecodeError"
    /\ state["plan"] = JList(<<>>)

\* nesting depth after token i of a text
Depth(t, i) ==
    Cardinality({j \in 1..i : t[j].sym = "{"}) - Cardinality({j \in 1..i : t[j].sym = "}"})

\* a text that is one well-formed object: it opens at its first token and
\* closes only at its last, holds no stray text, every nested "{" follows
\* a key and every such key is followed by "{"
WellFormedObject(t) ==
    /\ Len(t) >= 2
    /\ t[1].sym = "{"
    /\ \A i \in 1..(Len(t) - 1) : Depth(t, i) >= 1
    /\ Depth(t, Len(t)) = 0
    /\ \A i \in 1..Len(t) : t[i].sym # "x"
    /\ \A i \in 1..Len(t) : t[i].sym = "k:" => (i < Len(t) /\ t[i + 1].sym = "{")
    /\ \A i \in 2..Len(t) : t[i].sym = "{" => t[i - 1].sym = "k:"

\* the positions of the members of the outermost object of t
TopMembers(t) == {i \in 1..Len(t) : t[i].sym \in {"kv", "k:"} /\ Depth(t, i) = 1}

\* the number of tokens of the object nested after key position i that are
\* its own members
NestedMembers(t, i) ==
    LET close == Min({m \in (i + 2)..Len(t) : Depth(t, m) = 1})
    IN  Cardinality({m \in (i + 2)..close : t[m].sym \in {"kv", "k:"} /\ Depth(t, m) = 2})

\* C11: the parser takes the text from its first "{" to its last "}" and
\* returns the parse of exactly that: it raises when no "{" is followed by
\* a "}" and when that substring is no well-formed object, and otherwise
\* returns an object with every member of the substring, the last value
\* winning for a repeated key.
C11_GreedyParse ==
    pc # "extract_json" =>
        LET t == state["text"]
            opens == {i \in 1..Len(t) : t[i].sym = "{"}
            closes == {j \in 1..Len(t) : t[j].sym = "}"}
            matched == \E i \in opens, j \in closes : i < j
            sub == SubSeq(t, Min(opens), Max(closes))
            top == TopMembers(sub)
            obj == state["obj"]
        IN  /\ ~matched => (pc = "raised" /\ err = "ValueError")
            /\ (matched /\ ~WellFormedObject(sub))
                   => (pc = "raised" /\ err = "JSONDecodeError")
            /\ (matched /\ WellFormedObject(sub)) =>
                   /\ pc = "returned"
                   /\ err = "none"
                   /\ DOMAIN obj = {sub[i].key : i \in top}
                   /\ \A k \in DOMAIN obj :
                         LET i == Max({m \in top : sub[m].key = k})
                         IN  IF sub[i].sym = "kv" THEN obj[k] = sub[i].val
                             ELSE /\ obj[k].t = "obj"
                                  /\ Len(obj[k].l) = NestedMembers(sub, i)

\* a text with two objects and text between them: the selected substring
\* spans both and is rejected
C11_Witness ==
    /\ pc = "raised"
    /\ err = "JSONDecodeError"
    /\ state["text"] = <<Open, Close, Junk, Open, Close>>

\* position of a stage in the pipeline; an exception ends the run
Rank(p) ==
    CASE p = "plan_claims" -> 1
      [] p = "extract_next_claim" -> 2
      [] p = "verify_claim" -> 3
      [] p = "compute_score" -> 4
      [] p = "final_explanation" -> 5
      [] p = "END" -> 6
      [] p = "raised" -> 7

\* C13: the pipeline is strictly forward: a step leads to the same stage
\* only from the extractor or the verifier, and otherwise to the very next
\* stage (or ends the run with an exception); so no stage is returned to
\* and planner, aggregator and report builder each run at most once.
C13_StrictlyForward ==
    [][/\ pc # pc' => (pc' = "raised" \/ Rank(pc') = Rank(pc) + 1)
       /\ pc = pc' => pc \in {"extract_next_claim", "verify_claim"}
       /\ lastCall'.node = pc]_vars

\* a run that went through both loops twice and reached the end
C13_Witness ==
    /\ pc = "END"
    /\ lastCall.node = "final_explanation"
    /\ Len(state["claims"]) = 2
    /\ Len(state["claim_results"]) = 2

\* a response that is no usable claim: the call raised, the text did not
\* parse, or the object has neither claim nor done
Unusable(g) ==
    \/ Failed(g)
    \/ /\ "claim" \notin DOMAIN extract_json(g.content).obj
       /\ "done" \notin DOMAIN extract_json(g.content).obj

\* C14: with a list as plan, an extractor step never raises and either
\* appends exactly one claim to claims, changing nothing else, or leaves the
\* whole state unchanged; a response that is no usable claim leaves it
\* unchanged.
C14_ExtractorTwoOutcomes ==
    [][(pc = "extract_next_claim" /\ HasLen(state["plan"])) =>
          /\ pc' # "raised"
          /\ \/ state' = state
             \/ /\ DOMAIN state' = DOMAIN state
                /\ \A k \in DOMAIN state \ {"claims"} : state'[k] = state[k]
                /\ Len(state'["claims"]) = Len(state["claims"]) + 1
                /\ SubSeq(state'["claims"], 1, Len(state["claims"])) = state["claims"]
          /\ Unusable(lastCall'.gen) => state' = state]_vars

\* C15: a verifier iteration on an existing claim appends exactly one
\* result and raises current_index by 1, whether the search or the
\* generation succeeded or failed, and changes nothing else.
C15_VerifierEffect ==
    [][(pc = "verify_claim" /\ state["current_index"] < Len(state["claims"])) =>
          /\ pc' # "raised"
          /\ DOMAIN state' = DOMAIN state
          /\ \A k \in DOMAIN state \ {"claim_results", "current_index"} :
                state'[k] = state[k]
          /\ state'["current_index"] = state["current_index"] + 1
          /\ Len(state'["claim_results"]) = Len(state["claim_results"]) + 1
          /\ SubSeq(state'["claim_results"], 1, Len(state["claim_results"]))
                 = state["claim_results"]]_vars

\* C16: when the aggregator is about to run or has run, every extracted
\* claim has exactly one result; after a verifier iteration the verifier
\* runs again exactly when current_index < len(claims).
C16_AllVerifiedAtAggregation ==
    /\ pc \in {"compute_score", "final_explanation", "END"} =>
          /\ Len(state["claim_results"]) = Len(state["claims"])
          /\ Len(state["claims"]) = state["current_index"]
    /\ (lastCall.node = "verify_claim" /\ pc # "raised") =>
          /\ pc = "verify_claim" <=> state["current_index"] < Len(state["claims"])
          /\ pc = "compute_score" <=> state["current_index"] >= Len(state["claims"])

\* the verifier loop went round again, and later handed two results over
C16_Witness ==
    /\ pc = "compute_score"
    /\ lastCall.node = "verify_claim"
    /\ Len(state["claim_results"]) = 2

\* C17: every stored result has verdict legit or not legit.
C17_VerdictIsEnum ==
    Planned =>
        \A i \in 1..Len(state["claim_results"]) :
            state["claim_results"][i].verdict \in {JStr("legit"), JStr("not legit")}

\* C19: whenever the verifier is entered there is a claim at current_index.
C19_VerifierHasClaim ==
    pc = "verify_claim" => state["current_index"] < Len(state["claims"])

\* C20: a result is rendered as a passing block exactly when the aggregator
\* counted it as legit, so the percentage is that of the passing blocks.
C20_ReportAgreesWithScore ==
    Has("final_explanation") =>
        LET rs == state["claim_results"]
            e == state["final_explanation"]
            passing == {i \in 1..Len(rs) : e[Stride * (i - 1) + 1] = "[v] Claim: "}
        IN  /\ \A i \in 1..Len(rs) : i \in passing <=> rs[i].verdict = JStr("legit")
            /\ Len(rs) > 0 =>
                  state["legitimacy_percentage"]
                      \in Round2Set(Cardinality(passing), Len(rs))

\* C18: the returned label agrees with the returned, rounded percentage:
\* Verified exactly when it is >= 60.00, Unverified exactly when it is
\* below; and the returned percentage lies in [0, 100].
C18_LabelAgreesWithRounded ==
    (Has("D") /\ (Has("total") \/ state["claim_results"] # <<>>)) =>
        /\ state["D"] = "Verified" <=> state["legitimacy_percentage"] >= 100 * Threshold
        /\ state["D"] = "Unverified" <=> state["legitimacy_percentage"] < 100 * Threshold
        /\ 0 <= state["legitimacy_percentage"]
        /\ state["legitimacy_percentage"] <= 10000

====
